---- MODULE Spec2Model ----
(***************************************************************************)
(* Model of the ideal-function selection and test-point mapping program:   *)
(*   IdealFunctionSelector  (src/src/core/ideal_function_selector.py)      *)
(*   TestDataMapper         (src/src/core/test_mapper.py)                  *)
(*   Application            (src/main.py)                                  *)
(*   TrainingData, IdealFunction, TestData (src/src/models/models.py)      *)
(* Floating-point y values are modelled by small integers, on which the    *)
(* program's arithmetic (differences, squares, sums, comparisons) is exact.*)
(***************************************************************************)
EXTENDS Integers, Sequences, FiniteSets, TLC

VARIABLES
  training_data,             \* List[TrainingData]: rows [x, y_values (4 values)]
  ideal_functions,           \* List[IdealFunction]: records [x, y_values]
  test_data,                 \* List[TestData]: records [x, y, delta_y, ideal_function_no]
  selected_ideal_functions,  \* the selection records (dict keyed y1..y4)
  training_data_sets,        \* Application.training_data_sets (dict keyed train1..)
  db,                        \* Database: [engine, disposed]
  stage,                     \* position of the running workflow / last operation
  ret                        \* outcome of the last call (return value or exception)

vars == <<training_data, ideal_functions, test_data, selected_ideal_functions,
          training_data_sets, db, stage, ret>>

----------------------------------------------------------------------------
(* Bounds of the model *)

MaxN == 2
MaxK == 2
MaxObs == 2
MaxYValues == 5
MaxIdealValues == 51
MaxRows == 2

(* Python's float("inf"), the initial min_deviation: above every finite score *)
Infinity == 1000000

(* A y value too large for its square to be a float (such as 1e200), and the *)
(* largest difference whose square is one: "** 2" raises OverflowError above. *)
Huge == 1000
MaxSquarable == 100

(* The four training datasets Y1..Y4 are addressed by training_index 0..3 *)
TrainingIndices == 0 .. 3

----------------------------------------------------------------------------
(* Values *)

None == <<>>
Some(v) == <<v>>

Abs(a) == IF a < 0 THEN 0 - a ELSE a

Min2(a, b) == IF a < b THEN a ELSE b

(* The x coordinate of the k-th grid point (strictly increasing) *)
GridX(k) == k

(* The family of sampled curves the inputs are drawn from, on L grid points: *)
(* y = 0, y = 1 and y = x - 1.                                              *)
CurveIds == {"zero", "one", "ramp"}

Curve(c, L) ==
  [i \in 1 .. L |-> CASE c = "zero" -> 0
                      [] c = "one" -> 1
                      [] c = "ramp" -> GridX(i) - 1
                      [] c = "huge" -> Huge
                      [] c = "large" -> MaxSquarable]

TrainingData(x, y_values) == [x |-> x, y_values |-> y_values]

IdealFunction(x, y_values) == [x |-> x, y_values |-> y_values]

(* A training table of N rows whose four columns are the curves cs[1..4] *)
TrainingTable(N, cs) ==
  [k \in 1 .. N |->
     TrainingData(GridX(k), [s \in 1 .. 4 |-> Curve(cs[s], N)[k]])]

(* Tables of N rows in which one series is huge and the others are zero *)
OverflowingTables(N) ==
  { TrainingTable(N, cs) :
      cs \in { ds \in [1 .. 4 -> {"zero", "huge"}] :
                 Cardinality({ s \in 1 .. 4 : ds[s] = "huge" }) = 1 } }

(* Tables of N rows in which one series is large and the others are zero: the *)
(* squares of its differences are floats whose sum, from two rows on, is not   *)
SaturatingTables(N) ==
  { TrainingTable(N, cs) :
      cs \in { ds \in [1 .. 4 -> {"zero", "large"}] :
                 Cardinality({ s \in 1 .. 4 : ds[s] = "large" }) = 1 } }

TrainingTables ==
  { TrainingTable(N, cs) : N \in 0 .. MaxN, cs \in [1 .. 4 -> CurveIds] }
    \cup UNION { OverflowingTables(N) : N \in 1 .. MaxN }
    \cup UNION { SaturatingTables(N) : N \in 1 .. MaxN }

(* Candidate curves of any nonzero length (IdealFunction rejects an empty y_values) *)
IdealFunctionSet ==
  { IdealFunction(GridX(1), Curve(c, L)) : c \in CurveIds, L \in 1 .. MaxN }

IdealFunctionLists ==
  UNION { [1 .. K -> IdealFunctionSet] : K \in 0 .. MaxK }

----------------------------------------------------------------------------
(* IdealFunctionSelector *)

Returned(v) == [raised |-> "", value |-> v]
Raised(e) == [raised |-> e, value |-> 0]

(* Variant of the function below squaring the sum instead of the difference *)
calculate_squared_deviations_of_sum(training_y, ideal_y) ==
  IF Abs(training_y + ideal_y) > MaxSquarable
  THEN Raised("OverflowError")
  ELSE Returned((training_y + ideal_y) * (training_y + ideal_y))

(* "(training_y - ideal_y) ** 2": OverflowError when the square is no float *)
calculate_squared_deviations(training_y, ideal_y) ==
  IF Abs(training_y - ideal_y) > MaxSquarable
  THEN Raised("OverflowError")
  ELSE Returned((training_y - ideal_y) * (training_y - ideal_y))

(* The largest finite float, the square of MaxSquarable; float addition gives *)
(* inf, without raising, when the sum exceeds it.                             *)
MaxFloat == MaxSquarable * MaxSquarable

FloatAdd(a, b) == IF a + b > MaxFloat THEN Infinity ELSE a + b

(* sum(f(t, i) for t, i in zip(ts, is)), from position k on, with the total so *)
(* far: zip stops at the shorter sequence, an exception of f ends the sum.     *)
RECURSIVE ZipSumSq(_, _, _, _)
ZipSumSq(ts, is, k, total) ==
  IF k > Min2(Len(ts), Len(is)) THEN Returned(total)
  ELSE LET sq == calculate_squared_deviations(ts[k], is[k])
       IN IF sq.raised # "" THEN sq
          ELSE ZipSumSq(ts, is, k + 1, FloatAdd(total, sq.value))

(* Variant of the function below without the length check *)
sum_squared_deviations_unchecked(training_y_values, ideal_y_values) ==
  ZipSumSq(training_y_values, ideal_y_values, 1, 0)

sum_squared_deviations(training_y_values, ideal_y_values) ==
  IF Len(training_y_values) # Len(ideal_y_values)
  THEN Raised("ValueError")
  ELSE ZipSumSq(training_y_values, ideal_y_values, 1, 0)

(* [t.y_values[training_index] for t in training_data] *)
TrainingYValues(td, training_index) ==
  [k \in 1 .. Len(td) |-> td[k].y_values[training_index + 1]]

(* [abs(t_y - i_y) for t_y, i_y in zip(training_y_values, selected_ideal.y_values)] *)
DeviationsPerPoint(training_y_values, ideal_y_values) ==
  [k \in 1 .. Min2(Len(training_y_values), Len(ideal_y_values)) |->
     Abs(training_y_values[k] - ideal_y_values[k])]

(* Variant of the comparison below keeping the larger score *)
IsBetter_larger(ssd, min_deviation) == min_deviation = Infinity \/ ssd > min_deviation

(* "if ssd < min_deviation": the best match is replaced on a strictly smaller score *)
IsBetter(ssd, min_deviation) == ssd < min_deviation

(* The loop over enumerate(ideal_functions), from 0-based position ideal_idx on. *)
(* st.scored counts the candidates whose score has been computed.               *)
RECURSIVE ScanIdealFunctions(_, _, _, _, _)
ScanIdealFunctions(td, ifs, training_index, ideal_idx, st) ==
  IF ideal_idx >= Len(ifs) THEN st
  ELSE LET ssd == sum_squared_deviations(TrainingYValues(td, training_index),
                                         ifs[ideal_idx + 1].y_values)
       IN IF ssd.raised # ""
          THEN [st EXCEPT !.raised = ssd.raised]
          ELSE ScanIdealFunctions(td, ifs, training_index, ideal_idx + 1,
                 IF IsBetter(ssd.value, st.min_deviation)
                 THEN [st EXCEPT !.min_deviation = ssd.value,
                                 !.best_function_index = ideal_idx,
                                 !.scored = @ + 1]
                 ELSE [st EXCEPT !.scored = @ + 1])

(* Python list indexing: -len <= i < len, negative indices counted from the end *)
PyIndexOk(seq, i) == 0 - Len(seq) <= i /\ i < Len(seq)
PyIndex(seq, i) == IF i < 0 THEN seq[Len(seq) + i + 1] ELSE seq[i + 1]

(* Variant of the failure below in which the exception is swallowed *)
SelectionFailure_swallowed(e, scored) ==
  [raised |-> "", index |-> 0 - 1, min_deviation |-> Infinity,
   deviations |-> <<>>, scored |-> scored]

(* The outcome of a call ended by exception e: nothing is returned *)
SelectionFailure(e, scored) ==
  [raised |-> e, index |-> 0 - 1, min_deviation |-> Infinity,
   deviations |-> <<>>, scored |-> scored]

(* Variant of the function below whose index check sits inside the try block, *)
(* so that its ValueError is re-raised as MappingError                       *)
select_ideal_function_wrapping(td, ifs, training_index) ==
  IF ~(0 <= training_index /\ training_index <= 3)
  THEN SelectionFailure("MappingError", 0)
  ELSE LET st == ScanIdealFunctions(td, ifs, training_index, 0,
                   [min_deviation |-> Infinity, best_function_index |-> 0 - 1,
                    scored |-> 0, raised |-> ""])
       IN IF st.raised # ""
          THEN SelectionFailure("MappingError", st.scored)
          ELSE IF ~PyIndexOk(ifs, st.best_function_index)
          THEN SelectionFailure("MappingError", st.scored)
          ELSE [raised |-> "",
                index |-> st.best_function_index,
                min_deviation |-> st.min_deviation,
                deviations |-> DeviationsPerPoint(
                                 TrainingYValues(td, training_index),
                                 PyIndex(ifs, st.best_function_index).y_values),
                scored |-> st.scored]

(* select_ideal_function: the index check raises ValueError before the try  *)
(* block; every exception inside the block is re-raised as MappingError.    *)
select_ideal_function(td, ifs, training_index) ==
  IF ~(0 <= training_index /\ training_index <= 3)
  THEN SelectionFailure("ValueError", 0)
  ELSE LET st == ScanIdealFunctions(td, ifs, training_index, 0,
                   [min_deviation |-> Infinity, best_function_index |-> 0 - 1,
                    scored |-> 0, raised |-> ""])
       IN IF st.raised # ""
          THEN SelectionFailure("MappingError", st.scored)
          ELSE IF ~PyIndexOk(ifs, st.best_function_index)
          THEN SelectionFailure("MappingError", st.scored)
          ELSE [raised |-> "",
                index |-> st.best_function_index,
                min_deviation |-> st.min_deviation,
                deviations |-> DeviationsPerPoint(
                                 TrainingYValues(td, training_index),
                                 PyIndex(ifs, st.best_function_index).y_values),
                scored |-> st.scored]

(* Variant of the key below numbering the series from the last one *)
KeyOf_reversed(training_idx) == <<"y4", "y3", "y2", "y1">>[training_idx + 1]

(* The results dict of select_all_ideal_functions, keyed f"y{training_idx + 1}" *)
KeyOf(training_idx) == <<"y1", "y2", "y3", "y4">>[training_idx + 1]

Keys == { KeyOf(i) : i \in TrainingIndices }

EmptyDict == [k \in {} |-> 0]

DictPut(d, k, v) == [x \in (DOMAIN d) \cup {k} |-> IF x = k THEN v ELSE d[x]]

RECURSIVE MaxFrom(_, _)
MaxFrom(seq, k) ==
  IF k = Len(seq) THEN seq[k]
  ELSE LET m == MaxFrom(seq, k + 1) IN IF seq[k] > m THEN seq[k] ELSE m

(* Variant of the expression below taking the last deviation for the maximum *)
MaxDeviation_last(deviations) ==
  IF Len(deviations) = 0 THEN 0 ELSE deviations[Len(deviations)]

(* "max(deviations) if deviations else 0" *)
MaxDeviation(deviations) == IF Len(deviations) = 0 THEN 0 ELSE MaxFrom(deviations, 1)

SelectionRecord(r) ==
  [index |-> r.index,
   min_deviation |-> r.min_deviation,
   max_deviation |-> MaxDeviation(r.deviations),
   deviations |-> r.deviations]

(* Variant of the loop below that hands back the records made before a failure *)
RECURSIVE SelectAllLoop_partial(_, _, _, _)
SelectAllLoop_partial(td, ifs, training_idx, results) ==
  IF training_idx \notin TrainingIndices THEN [raised |-> "", results |-> results]
  ELSE LET r == select_ideal_function(td, ifs, training_idx)
       IN IF r.raised # ""
          THEN [raised |-> "MappingError", results |-> results]
          ELSE SelectAllLoop_partial(td, ifs, training_idx + 1,
                 DictPut(results, KeyOf(training_idx), SelectionRecord(r)))

(* The loop "for training_idx in range(4)", from training_idx on; the results *)
(* collected so far are dropped when a selection raises.                      *)
RECURSIVE SelectAllLoop(_, _, _, _)
SelectAllLoop(td, ifs, training_idx, results) ==
  IF training_idx \notin TrainingIndices THEN [raised |-> "", results |-> results]
  ELSE LET r == select_ideal_function(td, ifs, training_idx)
       IN IF r.raised # ""
          THEN [raised |-> "MappingError", results |-> EmptyDict]
          ELSE SelectAllLoop(td, ifs, training_idx + 1,
                             DictPut(results, KeyOf(training_idx), SelectionRecord(r)))

select_all_ideal_functions(td, ifs) == SelectAllLoop(td, ifs, 0, EmptyDict)

----------------------------------------------------------------------------
(* The selector called on arbitrary training data and candidate lists *)

NoCall == [op |-> "none"]

(* Database: whether self.engine and self.Session are set, whether the engine *)
(* has been disposed, and the number of rows each table holds.               *)
Tables == {"training_data", "ideal_functions", "test_data"}

NoRows == [t \in Tables |-> 0]

NoDatabase == [engine |-> FALSE, Session |-> FALSE, disposed |-> FALSE, rows |-> NoRows]

(* init_db: create_engine, drop_all, create_all, sessionmaker; the engine is  *)
(* assigned before the tables are dropped and Session after they are created. *)
InitDbOutcomes == {"ok", "create_engine failed", "drop_all failed"}

init_db(d, outcome) ==
  CASE outcome = "ok" ->
         [raised |-> "",
          db |-> [engine |-> TRUE, Session |-> TRUE, disposed |-> FALSE, rows |-> NoRows]]
    [] outcome = "create_engine failed" ->
         [raised |-> "DatabaseError", db |-> d]
    [] outcome = "drop_all failed" ->
         [raised |-> "DatabaseError",
          db |-> [d EXCEPT !.engine = TRUE, !.disposed = FALSE]]

(* get_session: "if self.engine is None: raise DatabaseError", then "return     *)
(* self.Session()", a TypeError while Session is None; a session is returned as 1 *)
get_session(d) ==
  IF ~d.engine THEN Raised("DatabaseError")
  ELSE IF ~d.Session THEN Raised("TypeError")
  ELSE Returned(1)

(* close: "if self.engine: self.engine.dispose()" *)
close(d) == [d EXCEPT !.disposed = d.engine]

(* clear_all_tables: a session is taken, outside any try block, and every table emptied *)
clear_all_tables(d) ==
  IF get_session(d).raised # ""
  THEN [raised |-> get_session(d).raised, db |-> d]
  ELSE [raised |-> "", db |-> [d EXCEPT !.rows = NoRows]]

InitSelector ==
  /\ training_data \in TrainingTables
  /\ ideal_functions \in IdealFunctionLists
  /\ test_data = <<>>
  /\ selected_ideal_functions = EmptyDict
  /\ training_data_sets = EmptyDict
  /\ db = NoDatabase
  /\ stage = "selector"
  /\ ret = NoCall

(* Variant of the call below that takes the first candidate off the list *)
SelectIdealFunction_consuming ==
  /\ stage = "selector"
  /\ \E training_index \in 0 - 1 .. 4 :
       ret' = [op |-> "select_ideal_function",
               training_index |-> training_index,
               result |-> select_ideal_function(training_data, ideal_functions,
                                                training_index)]
  /\ ideal_functions' = IF Len(ideal_functions) = 0 THEN ideal_functions
                        ELSE Tail(ideal_functions)
  /\ UNCHANGED <<training_data, test_data,
                 selected_ideal_functions, training_data_sets, db, stage>>

(* select_ideal_function reads its arguments and builds new lists; the selector *)
(* has no attributes.                                                           *)
SelectIdealFunction ==
  /\ stage = "selector"
  /\ \E training_index \in 0 - 1 .. 4 :
       ret' = [op |-> "select_ideal_function",
               training_index |-> training_index,
               result |-> select_ideal_function(training_data, ideal_functions,
                                                training_index)]
  /\ UNCHANGED <<training_data, ideal_functions, test_data,
                 selected_ideal_functions, training_data_sets, db, stage>>

SelectAllIdealFunctions ==
  /\ stage = "selector"
  /\ ret' = [op |-> "select_all_ideal_functions",
             result |-> select_all_ideal_functions(training_data, ideal_functions)]
  /\ UNCHANGED <<training_data, ideal_functions, test_data,
                 selected_ideal_functions, training_data_sets, db, stage>>

NextSelector == SelectIdealFunction \/ SelectAllIdealFunctions

SpecSelector == InitSelector /\ [][NextSelector]_vars

----------------------------------------------------------------------------
(* TestDataMapper *)

TestData(x, y) == [x |-> x, y |-> y, delta_y |-> None, ideal_function_no |-> None]

(* _find_closest_x: None for an ideal function without values, and otherwise *)
(* closest_idx, which the function leaves at 0 whatever x_target is.         *)
find_closest_x(ideal_func, x_target) ==
  IF Len(ideal_func.y_values) = 0 THEN None ELSE Some(0)

(* Variant of the comparison below with a strict bound *)
WithinThreshold_strict(deviation, max_training_deviation) ==
  /\ max_training_deviation >= 0
  /\ deviation * deviation < 2 * max_training_deviation * max_training_deviation

(* "deviation <= max_training_deviation * math.sqrt(2)", with deviation >= 0: *)
(* on integers, d <= m * sqrt(2) exactly when m >= 0 and d * d <= 2 * m * m.  *)
WithinThreshold(deviation, max_training_deviation) ==
  /\ max_training_deviation >= 0
  /\ deviation * deviation <= 2 * max_training_deviation * max_training_deviation

(* Variant of the function below that records the deviation of a rejected point *)
map_test_point_recording(test_point, ifs, selected_ideal_index, max_training_deviation) ==
  IF ~PyIndexOk(ifs, selected_ideal_index)
  THEN [raised |-> "MappingError", value |-> None, test_point |-> test_point]
  ELSE LET ideal_func == PyIndex(ifs, selected_ideal_index)
           closest_idx == find_closest_x(ideal_func, test_point.x)
       IN IF closest_idx = None
          THEN [raised |-> "", value |-> None, test_point |-> test_point]
          ELSE LET ideal_y == PyIndex(ideal_func.y_values, closest_idx[1])
                   deviation == Abs(test_point.y - ideal_y)
               IN IF WithinThreshold(deviation, max_training_deviation)
                  THEN [raised |-> "",
                        value |-> Some(selected_ideal_index),
                        test_point |->
                          [test_point EXCEPT
                             !.delta_y = Some(deviation),
                             !.ideal_function_no = Some(selected_ideal_index + 1)]]
                  ELSE [raised |-> "", value |-> None,
                        test_point |-> [test_point EXCEPT !.delta_y = Some(deviation)]]

(* Variant of the function below that clears the outcome of a rejected point *)
map_test_point_clearing(test_point, ifs, selected_ideal_index, max_training_deviation) ==
  IF ~PyIndexOk(ifs, selected_ideal_index)
  THEN [raised |-> "MappingError", value |-> None, test_point |-> test_point]
  ELSE LET ideal_func == PyIndex(ifs, selected_ideal_index)
           closest_idx == find_closest_x(ideal_func, test_point.x)
       IN IF closest_idx = None
          THEN [raised |-> "", value |-> None, test_point |-> test_point]
          ELSE LET ideal_y == PyIndex(ideal_func.y_values, closest_idx[1])
                   deviation == Abs(test_point.y - ideal_y)
               IN IF WithinThreshold(deviation, max_training_deviation)
                  THEN [raised |-> "",
                        value |-> Some(selected_ideal_index),
                        test_point |->
                          [test_point EXCEPT
                             !.delta_y = Some(deviation),
                             !.ideal_function_no = Some(selected_ideal_index + 1)]]
                  ELSE [raised |-> "", value |-> None,
                        test_point |-> [test_point EXCEPT !.delta_y = None,
                                                          !.ideal_function_no = None]]

(* The outcome of map_test_point: the exception or the returned value, and *)
(* the test point as the call leaves it.                                   *)
map_test_point(test_point, ifs, selected_ideal_index, max_training_deviation) ==
  IF ~PyIndexOk(ifs, selected_ideal_index)
  THEN [raised |-> "MappingError", value |-> None, test_point |-> test_point]
  ELSE LET ideal_func == PyIndex(ifs, selected_ideal_index)
           closest_idx == find_closest_x(ideal_func, test_point.x)
       IN IF closest_idx = None
          THEN [raised |-> "", value |-> None, test_point |-> test_point]
          ELSE LET ideal_y == PyIndex(ideal_func.y_values, closest_idx[1])
                   deviation == Abs(test_point.y - ideal_y)
               IN IF WithinThreshold(deviation, max_training_deviation)
                  THEN [raised |-> "",
                        value |-> Some(selected_ideal_index),
                        test_point |->
                          [test_point EXCEPT
                             !.delta_y = Some(deviation),
                             !.ideal_function_no = Some(selected_ideal_index + 1)]]
                  ELSE [raised |-> "", value |-> None, test_point |-> test_point]

(* The loop "for i, key in enumerate(['y1', 'y2', 'y3', 'y4'])" for one test *)
(* point, from position i on: the first key whose call returns a value wins. *)
RECURSIVE TryKeys(_, _, _, _)
TryKeys(test_point, ifs, selected_ideal_indices, i) ==
  IF i \notin TrainingIndices
  THEN [raised |-> "", mapped |-> FALSE, test_point |-> test_point]
  ELSE IF KeyOf(i) \notin DOMAIN selected_ideal_indices
  THEN TryKeys(test_point, ifs, selected_ideal_indices, i + 1)
  ELSE LET result == map_test_point(test_point, ifs,
                                    selected_ideal_indices[KeyOf(i)].index,
                                    selected_ideal_indices[KeyOf(i)].max_deviation)
       IN IF result.raised # ""
          THEN [raised |-> result.raised, mapped |-> FALSE,
                test_point |-> result.test_point]
          ELSE IF result.value # None
          THEN [raised |-> "", mapped |-> TRUE, test_point |-> result.test_point]
          ELSE TryKeys(result.test_point, ifs, selected_ideal_indices, i + 1)

(* Variant of the loop below that returns the assigned points only *)
RECURSIVE MapAllLoop_assigned_only(_, _, _, _, _)
MapAllLoop_assigned_only(tds, ifs, selected_ideal_indices, p, mapped_test_data) ==
  IF p > Len(tds)
  THEN [raised |-> "", value |-> mapped_test_data, test_data |-> tds]
  ELSE LET tried == TryKeys(tds[p], ifs, selected_ideal_indices, 0)
       IN IF tried.raised # ""
          THEN [raised |-> "MappingError", value |-> <<>>,
                test_data |-> [tds EXCEPT ![p] = tried.test_point]]
          ELSE LET done == IF tried.mapped THEN tried.test_point
                           ELSE [tried.test_point EXCEPT
                                   !.delta_y = None, !.ideal_function_no = None]
               IN MapAllLoop_assigned_only(
                    [tds EXCEPT ![p] = done], ifs, selected_ideal_indices, p + 1,
                    IF tried.mapped THEN Append(mapped_test_data, done)
                    ELSE mapped_test_data)

(* The loop "for test_point in test_data", from position p on. The test points *)
(* are updated in place, so an exception leaves the earlier ones updated.      *)
RECURSIVE MapAllLoop(_, _, _, _, _)
MapAllLoop(tds, ifs, selected_ideal_indices, p, mapped_test_data) ==
  IF p > Len(tds)
  THEN [raised |-> "", value |-> mapped_test_data, test_data |-> tds]
  ELSE LET tried == TryKeys(tds[p], ifs, selected_ideal_indices, 0)
       IN IF tried.raised # ""
          THEN [raised |-> "MappingError", value |-> <<>>,
                test_data |-> [tds EXCEPT ![p] = tried.test_point]]
          ELSE LET done == IF tried.mapped THEN tried.test_point
                           ELSE [tried.test_point EXCEPT
                                   !.delta_y = None, !.ideal_function_no = None]
               IN MapAllLoop([tds EXCEPT ![p] = done], ifs, selected_ideal_indices,
                             p + 1, Append(mapped_test_data, done))

map_all_test_data(tds, ifs, training_data_ys, selected_ideal_indices) ==
  MapAllLoop(tds, ifs, selected_ideal_indices, 1, <<>>)

----------------------------------------------------------------------------
(* The mapper called on loaded data and the selection records computed from it *)

(* Candidate lists whose curves are all sampled on a grid of N points *)
IdealFunctionGrids(N, Ks) ==
  UNION { [1 .. K -> { IdealFunction(GridX(1), Curve(c, N)) : c \in CurveIds }] :
          K \in Ks }

(* Test data of up to MaxObs points, the i-th at x0 + i - 1 with y = y0 + i - 1: *)
(* x runs from below the grid's first point to above its last one.              *)
TestDataLists(N) ==
  { [i \in 1 .. n |-> TestData(x0 + i - 1, y0 + i - 1)] :
      n \in 0 .. MaxObs, x0 \in 0 .. N, y0 \in 0 .. 2 }

(* Training tables of N rows for the mapping runs: the series y1, y2 and y3 are *)
(* any curves of the family, and y4 is the curve following y3 in it.           *)
NextCurve(c) == CASE c = "zero" -> "one" [] c = "one" -> "ramp" [] c = "ramp" -> "zero"

LoadedTrainingTables(N) ==
  { TrainingTable(N, cs) : cs \in { ds \in [1 .. 4 -> CurveIds] : ds[4] = NextCurve(ds[3]) } }
    \cup SaturatingTables(N)

InitMapper ==
  \E N \in 1 .. MaxN :
    /\ training_data \in LoadedTrainingTables(N)
    /\ ideal_functions \in IdealFunctionGrids(N, 1 .. MaxK)
    /\ test_data \in TestDataLists(N)
    /\ selected_ideal_functions =
         select_all_ideal_functions(training_data, ideal_functions).results
    /\ training_data_sets = EmptyDict
    /\ db = NoDatabase
    /\ stage = "mapper"
    /\ ret = NoCall

(* The stage after a call of the mapper: a mapper used for one call is done, *)
(* one used for a sequence of calls stays open to the next call.            *)
AfterCall(st) == IF st = "mapper" THEN "mapped" ELSE st

MapTestPoint ==
  /\ stage \in {"mapper", "mapper calls"}
  /\ \E p \in 1 .. Len(test_data), key \in DOMAIN selected_ideal_functions :
       LET result == map_test_point(test_data[p], ideal_functions,
                                    selected_ideal_functions[key].index,
                                    selected_ideal_functions[key].max_deviation)
       IN /\ test_data' = [test_data EXCEPT ![p] = result.test_point]
          /\ ret' = [op |-> "map_test_point", point |-> p, key |-> key,
                     before |-> test_data[p],
                     result |-> [raised |-> result.raised, value |-> result.value]]
  /\ stage' = AfterCall(stage)
  /\ UNCHANGED <<training_data, ideal_functions, selected_ideal_functions,
                 training_data_sets, db>>

MapAllTestData ==
  /\ stage \in {"mapper", "mapper calls"}
  /\ LET result == map_all_test_data(test_data, ideal_functions, <<>>,
                                     selected_ideal_functions)
     IN /\ test_data' = result.test_data
        /\ ret' = [op |-> "map_all_test_data", before |-> test_data,
                   result |-> [raised |-> result.raised, value |-> result.value]]
  /\ stage' = AfterCall(stage)
  /\ UNCHANGED <<training_data, ideal_functions, selected_ideal_functions,
                 training_data_sets, db>>

NextMapper == MapTestPoint \/ MapAllTestData

SpecMapper == InitMapper /\ [][NextMapper]_vars

(* The mapper called any number of times on the same test data, whose first *)
(* point lies on the first grid point                                       *)
InitMapperCalls ==
  \E N \in 1 .. MaxN :
    /\ training_data \in LoadedTrainingTables(N)
    /\ ideal_functions \in IdealFunctionGrids(N, {MaxK})
    /\ test_data \in { l \in TestDataLists(N) : Len(l) > 0 /\ l[1].x = GridX(1) }
    /\ selected_ideal_functions =
         select_all_ideal_functions(training_data, ideal_functions).results
    /\ training_data_sets = EmptyDict
    /\ db = NoDatabase
    /\ stage = "mapper calls"
    /\ ret = NoCall

SpecMapperCalls == InitMapperCalls /\ [][NextMapper]_vars

----------------------------------------------------------------------------
(* The data classes: construction of rows and candidate curves *)

(* Variant of the validation below that accepts any number of values *)
TrainingData_post_init_unchecked(y_values) == ""

(* TrainingData.__post_init__: "if len(self.y_values) != 4: raise ValueError" *)
TrainingData_post_init(y_values) == IF Len(y_values) # 4 THEN "ValueError" ELSE ""

(* Variant of the validation below that requires fifty values *)
IdealFunction_post_init_fifty(y_values) == IF Len(y_values) # 50 THEN "ValueError" ELSE ""

(* IdealFunction.__post_init__:                                *)
(* "if not self.y_values or len(self.y_values) == 0: raise ValueError" *)
IdealFunction_post_init(y_values) == IF Len(y_values) = 0 THEN "ValueError" ELSE ""

(* n values, all v *)
Repeated(n, v) == [i \in 1 .. n |-> v]

InitModels ==
  /\ training_data = <<>>
  /\ ideal_functions = <<>>
  /\ test_data = <<>>
  /\ selected_ideal_functions = EmptyDict
  /\ training_data_sets = EmptyDict
  /\ db = NoDatabase
  /\ stage = "models"
  /\ ret = NoCall

(* TrainingData(x=x, y_values=y_values), the row appended to a list when built; *)
(* rows are built while the list has room for them.                            *)
NewTrainingData ==
  /\ stage = "models"
  /\ \E x \in 1 .. 2, n \in 0 .. MaxYValues, v \in 0 .. 1 :
       LET raised == TrainingData_post_init(Repeated(n, v))
       IN /\ raised = "" => Len(training_data) < MaxN
          /\ ret' = [op |-> "TrainingData", x |-> x, y_values |-> Repeated(n, v),
                     raised |-> raised]
          /\ training_data' =
               IF raised = "" THEN Append(training_data, TrainingData(x, Repeated(n, v)))
               ELSE training_data
  /\ UNCHANGED <<ideal_functions, test_data, selected_ideal_functions,
                 training_data_sets, db, stage>>

(* IdealFunction(x=x, y_values=y_values) *)
NewIdealFunction ==
  /\ stage = "models"
  /\ \E x \in 1 .. 2, n \in 0 .. MaxIdealValues :
       ret' = [op |-> "IdealFunction", x |-> x, y_values |-> Repeated(n, 0),
               raised |-> IdealFunction_post_init(Repeated(n, 0))]
  /\ UNCHANGED <<training_data, ideal_functions, test_data,
                 selected_ideal_functions, training_data_sets, db, stage>>

NextModels == NewTrainingData \/ NewIdealFunction

SpecModels == InitModels /\ [][NextModels]_vars

----------------------------------------------------------------------------
(* IdealFunctionLoader: load_ideal_functions on CSV files *)

(* What a data file holds: it is missing, it cannot be loaded, or it loads *)
Missing == [status |-> "missing"]
Unreadable == [status |-> "unreadable"]
Loads(data) == [status |-> "ok", data |-> data]

(* A path that is no string: os.path.exists raises TypeError *)
NoPath == [status |-> "no path"]

(* "for ideal_idx in range(1, 51)": the columns y1..y50 *)
IdealFunctionCount == 50

(* A CSV file of N rows with the columns x, y1..yC: row i holds x0 + i - 1 and, *)
(* in column yk, the value a * i + b * k.                                        *)
IdealCsv(N, C, a, b, x0) ==
  [status |-> "ok", columns |-> C,
   rows |-> [i \in 1 .. N |-> [x |-> x0 + i - 1, y |-> [k \in 1 .. C |-> a * i + b * k]]]]

IdealCsvFiles ==
  {Missing, Unreadable}
    \cup { IdealCsv(N, C, a, b, x0) :
             N \in 0 .. MaxN, C \in IdealFunctionCount - 1 .. IdealFunctionCount + 1,
             a \in 0 .. 2, b \in 0 .. 2, x0 \in 1 .. 2 }

(* Variant of the function below that builds one object per row of the file *)
load_ideal_functions_by_row(file) ==
  IF file.status # "ok" THEN Raised("DataLoadError")
  ELSE IF file.columns < IdealFunctionCount THEN Raised("InvalidDataError")
  ELSE IF Len(file.rows) = 0 THEN Raised("InvalidDataError")
  ELSE Returned([i \in 1 .. Len(file.rows) |->
                   IdealFunction(file.rows[i].x,
                                 [k \in 1 .. IdealFunctionCount |-> file.rows[i].y[k]])])

(* load_ideal_functions: load_csv (DataLoadError), validate_dataframe           *)
(* (InvalidDataError when a column is missing), then one IdealFunction per      *)
(* column y1..y50 holding the column's values, with x = float(x_values[0]); any *)
(* exception of that part, such as the IndexError of x_values[0] on a file      *)
(* without rows, is re-raised as InvalidDataError.                              *)
load_ideal_functions(file) ==
  IF file.status # "ok" THEN Raised("DataLoadError")
  ELSE IF file.columns < IdealFunctionCount THEN Raised("InvalidDataError")
  ELSE IF Len(file.rows) = 0 THEN Raised("InvalidDataError")
  ELSE Returned([k \in 1 .. IdealFunctionCount |->
                   IdealFunction(file.rows[1].x,
                                 [i \in 1 .. Len(file.rows) |-> file.rows[i].y[k]])])

InitLoader ==
  /\ training_data = <<>>
  /\ ideal_functions = <<>>
  /\ test_data = <<>>
  /\ selected_ideal_functions = EmptyDict
  /\ training_data_sets = EmptyDict
  /\ db = NoDatabase
  /\ stage = "loader"
  /\ ret = NoCall

LoadIdealFunctions ==
  /\ stage = "loader"
  /\ \E file \in IdealCsvFiles :
       ret' = [op |-> "load_ideal_functions", file |-> file,
               result |-> load_ideal_functions(file)]
  /\ UNCHANGED <<training_data, ideal_functions, test_data,
                 selected_ideal_functions, training_data_sets, db, stage>>

NextLoader == LoadIdealFunctions

SpecLoader == InitLoader /\ [][NextLoader]_vars

----------------------------------------------------------------------------
(* Database: init_db, get_session, close and the table operations, called in *)
(* any order                                                                 *)

InitDatabase ==
  /\ training_data = <<>>
  /\ ideal_functions = <<>>
  /\ test_data = <<>>
  /\ selected_ideal_functions = EmptyDict
  /\ training_data_sets = EmptyDict
  /\ db = NoDatabase
  /\ stage = "database"
  /\ ret = NoCall

InitDb ==
  /\ stage = "database"
  /\ \E outcome \in InitDbOutcomes :
       /\ db' = init_db(db, outcome).db
       /\ ret' = [op |-> "init_db", raised |-> init_db(db, outcome).raised]
  /\ UNCHANGED <<training_data, ideal_functions, test_data,
                 selected_ideal_functions, training_data_sets, stage>>

GetSession ==
  /\ stage = "database"
  /\ ret' = [op |-> "get_session", result |-> get_session(db)]
  /\ UNCHANGED <<training_data, ideal_functions, test_data,
                 selected_ideal_functions, training_data_sets, db, stage>>

Close ==
  /\ stage = "database"
  /\ db' = close(db)
  /\ ret' = [op |-> "close", raised |-> ""]
  /\ UNCHANGED <<training_data, ideal_functions, test_data,
                 selected_ideal_functions, training_data_sets, stage>>

ClearAllTables ==
  /\ stage = "database"
  /\ db' = clear_all_tables(db).db
  /\ ret' = [op |-> "clear_all_tables", raised |-> clear_all_tables(db).raised]
  /\ UNCHANGED <<training_data, ideal_functions, test_data,
                 selected_ideal_functions, training_data_sets, stage>>

(* A caller stores n records in a table: it takes a session, adds the records, *)
(* commits and closes the session; any exception is rolled back and re-raised  *)
(* as the caller's error.                                                      *)
SaveRows ==
  /\ stage = "database"
  /\ \E table \in Tables, n \in 1 .. MaxRows :
       /\ db.rows[table] + n <= MaxRows
       /\ db' = IF get_session(db).raised = ""
                THEN [db EXCEPT !.rows[table] = @ + n] ELSE db
       /\ ret' = [op |-> "save", table |-> table,
                  raised |-> IF get_session(db).raised = "" THEN ""
                             ELSE IF table = "test_data" THEN "MappingError"
                             ELSE "DatabaseError"]
  /\ UNCHANGED <<training_data, ideal_functions, test_data,
                 selected_ideal_functions, training_data_sets, stage>>

NextDatabase == InitDb \/ GetSession \/ Close \/ ClearAllTables \/ SaveRows

SpecDatabase == InitDatabase /\ [][NextDatabase]_vars

----------------------------------------------------------------------------
(* Application: the workflow of Application.run *)

TrainingFiles ==
  {Missing, Unreadable, NoPath}
    \cup { Loads(t) : t \in UNION { LoadedTrainingTables(N) : N \in 0 .. MaxN } }
    \cup { Loads(t) : t \in UNION { OverflowingTables(N) : N \in 1 .. MaxN } }

(* load_ideal_functions builds one IdealFunction per y column of the file, *)
(* each with one value per row.                                            *)
IdealFiles ==
  {Missing, Unreadable}
    \cup { Loads(l) : l \in UNION { IdealFunctionGrids(M, {MaxK}) : M \in 1 .. MaxN } }

TestFiles ==
  {Missing, Unreadable} \cup { Loads(l) : l \in TestDataLists(MaxN) }

Init ==
  /\ training_data = <<>>
  /\ ideal_functions = <<>>
  /\ test_data = <<>>
  /\ selected_ideal_functions = EmptyDict
  /\ training_data_sets = EmptyDict
  /\ db = NoDatabase
  /\ stage = "constructed"
  /\ ret = NoCall

(* load_data: a missing file is reported and skipped; a file that fails to   *)
(* load raises DataLoadError and leaves the later files unloaded; the        *)
(* TypeError of os.path.exists is not caught by load_data, nor by run.       *)
LoadData ==
  /\ stage = "constructed"
  /\ \E training_file \in TrainingFiles, ideal_file \in IdealFiles,
        test_file \in TestFiles :
       LET crashed == training_file.status = "no path"
           training_failed == training_file.status \in {"unreadable", "no path"}
           ideal_failed == ~training_failed /\ ideal_file.status = "unreadable"
           test_failed == ~training_failed /\ ~ideal_failed
                            /\ test_file.status = "unreadable"
           failed == training_failed \/ ideal_failed \/ test_failed
       IN /\ training_data_sets' =
               IF training_file.status = "ok"
               THEN DictPut(training_data_sets, "train1", training_file.data)
               ELSE training_data_sets
          /\ ideal_functions' =
               IF ~training_failed /\ ideal_file.status = "ok"
               THEN ideal_file.data ELSE ideal_functions
          /\ test_data' =
               IF ~training_failed /\ ~ideal_failed /\ test_file.status = "ok"
               THEN test_file.data ELSE test_data
          /\ stage' = IF crashed THEN "crashed" ELSE IF failed THEN "failed" ELSE "loaded"
          /\ ret' = [op |-> "load_data",
                     files |-> <<training_file.status, ideal_file.status,
                                 test_file.status>>,
                     raised |-> IF crashed THEN "TypeError"
                                ELSE IF failed THEN "DataLoadError" ELSE ""]
  /\ UNCHANGED <<training_data, selected_ideal_functions, db>>

(* initialize_database: init_db, then the training and ideal-function tables *)
(* are filled through sessions; a failure of either step is a DatabaseError.  *)
InitializeDatabase ==
  /\ stage = "loaded"
  /\ \E outcome \in InitDbOutcomes, populated \in BOOLEAN :
       LET initialized == init_db(db, outcome)
           ok == initialized.raised = "" /\ populated
       IN /\ db' = IF ok
                   THEN [initialized.db EXCEPT
                           !.rows["training_data"] =
                              IF training_data_sets = EmptyDict THEN 0
                              ELSE Len(training_data_sets["train1"]),
                           !.rows["ideal_functions"] =
                              IF Len(ideal_functions) = 0 THEN 0
                              ELSE Len(ideal_functions[1].y_values)]
                   ELSE initialized.db
          /\ stage' = IF ok THEN "initialized" ELSE "failed"
          /\ ret' = [op |-> "initialize_database",
                     raised |-> IF ok THEN "" ELSE "DatabaseError"]
  /\ UNCHANGED <<training_data, ideal_functions, test_data,
                 selected_ideal_functions, training_data_sets>>

(* list(self.training_data_sets.values())[0] *)
FirstTrainingDataSet(sets) == sets["train1"]

app_select_ideal_functions(sets, ifs) ==
  IF sets = EmptyDict \/ Len(ifs) = 0
  THEN [raised |-> "MappingError", results |-> EmptyDict]
  ELSE select_all_ideal_functions(FirstTrainingDataSet(sets), ifs)

SelectIdealFunctions ==
  /\ stage = "initialized"
  /\ LET result == app_select_ideal_functions(training_data_sets, ideal_functions)
     IN /\ selected_ideal_functions' =
             IF result.raised = "" THEN result.results ELSE selected_ideal_functions
        /\ stage' = IF result.raised = "" THEN "selected" ELSE "failed"
        /\ ret' = [op |-> "select_ideal_functions",
                   raised |-> IF result.raised = "" THEN "" ELSE "MappingError"]
  /\ UNCHANGED <<training_data, ideal_functions, test_data, training_data_sets, db>>

(* The loop "for test_point in self.test_data" of map_test_data, from position p on *)
RECURSIVE AppMapLoop(_, _, _, _, _)
AppMapLoop(tds, ifs, ideal_func_index, max_deviation, p) ==
  IF p > Len(tds) THEN [raised |-> "", test_data |-> tds]
  ELSE LET result == map_test_point(tds[p], ifs, ideal_func_index, max_deviation)
       IN IF result.raised # ""
          THEN [raised |-> "MappingError", test_data |-> tds]
          ELSE AppMapLoop([tds EXCEPT ![p] = result.test_point], ifs,
                          ideal_func_index, max_deviation, p + 1)

(* map_test_data: every test point is mapped with the record of 'y1' alone, *)
(* then the test data is saved to the database (saved: whether that works). *)
app_map_test_data(tds, selected, ifs, saved) ==
  IF Len(tds) = 0 \/ selected = EmptyDict
  THEN [raised |-> "MappingError", test_data |-> tds]
  ELSE LET ideal_func_index == IF "y1" \in DOMAIN selected THEN selected["y1"].index ELSE 0
           max_deviation == IF "y1" \in DOMAIN selected
                            THEN selected["y1"].max_deviation ELSE 0
           mapped == AppMapLoop(tds, ifs, ideal_func_index, max_deviation, 1)
       IN IF mapped.raised = "" /\ ~saved
          THEN [raised |-> "MappingError", test_data |-> mapped.test_data]
          ELSE mapped

MapTestData ==
  /\ stage = "selected"
  /\ \E saved \in BOOLEAN :
       LET result == app_map_test_data(test_data, selected_ideal_functions,
                                       ideal_functions, saved)
       IN /\ test_data' = result.test_data
          /\ db' = IF result.raised = ""
                   THEN [db EXCEPT !.rows["test_data"] = Len(result.test_data)]
                   ELSE db
          /\ stage' = IF result.raised = "" THEN "mapped" ELSE "failed"
          /\ ret' = [op |-> "map_test_data", raised |-> result.raised]
  /\ UNCHANGED <<training_data, ideal_functions, selected_ideal_functions,
                 training_data_sets>>

(* visualize_results: the plots are drawn and saved, or VisualizationError *)
VisualizeResults ==
  /\ stage = "mapped"
  /\ \E drawn \in BOOLEAN :
       /\ stage' = IF drawn THEN "visualized" ELSE "failed"
       /\ ret' = [op |-> "visualize_results",
                  raised |-> IF drawn THEN "" ELSE "VisualizationError"]
  /\ UNCHANGED <<training_data, ideal_functions, test_data,
                 selected_ideal_functions, training_data_sets, db>>

(* Variant of the end of run below without the finally clause *)
Finish_without_close ==
  /\ stage \in {"visualized", "failed", "crashed"}
  /\ stage' = "exited"
  /\ ret' = [op |-> "run", raised |-> ret.raised,
             exit_status |-> IF stage = "visualized" THEN 0 ELSE 1]
  /\ UNCHANGED <<training_data, ideal_functions, test_data,
                 selected_ideal_functions, training_data_sets, db>>

(* The end of run: sys.exit(1) after a stage's error of the five caught kinds, *)
(* an exception of another kind propagates (the interpreter then exits with   *)
(* status 1), and in every case "finally: self.db.close()".                   *)
Finish ==
  /\ stage \in {"visualized", "failed", "crashed"}
  /\ db' = close(db)
  /\ stage' = "exited"
  /\ ret' = [op |-> "run", raised |-> ret.raised,
             exit_status |-> IF stage = "visualized" THEN 0 ELSE 1]
  /\ UNCHANGED <<training_data, ideal_functions, test_data,
                 selected_ideal_functions, training_data_sets>>

Next ==
  \/ LoadData
  \/ InitializeDatabase
  \/ SelectIdealFunctions
  \/ MapTestData
  \/ VisualizeResults
  \/ Finish

Spec == Init /\ [][Next]_vars

----------------------------------------------------------------------------
(* Properties of the selector *)

(* Sum of squared deviations of two series of equal length, as a float: inf *)
(* when the sum is above the largest finite float                          *)
RECURSIVE SSDFrom(_, _, _)
SSDFrom(a, b, k) ==
  IF k > Len(a) THEN 0
  ELSE (a[k] - b[k]) * (a[k] - b[k]) + SSDFrom(a, b, k + 1)

SSD(a, b) == IF SSDFrom(a, b, 1) > MaxFloat THEN Infinity ELSE SSDFrom(a, b, 1)

(* The last call was select_ideal_function with a training_index in 0..3 *)
SelectedOne == ret.op = "select_ideal_function" /\ ret.training_index \in TrainingIndices

SelectedOneOk == SelectedOne /\ ret.result.raised = ""

SelectedAll == ret.op = "select_all_ideal_functions"

SelectedAllOk == SelectedAll /\ ret.result.raised = ""

MeasuredSeries(s) == TrainingYValues(training_data, s)

CandidateSSD(s, c) == SSD(MeasuredSeries(s), ideal_functions[c + 1].y_values)

CandidateIndices == 0 .. Len(ideal_functions) - 1

(* The candidate a returned index stands for, ideal_functions[index] as the *)
(* code reads it, and its score against series s                            *)
Chosen(index) == PyIndex(ideal_functions, index)

ChosenSSD(s, index) == SSD(MeasuredSeries(s), Chosen(index).y_values)

SomeLengthMismatch ==
  \E c \in CandidateIndices :
    Len(ideal_functions[c + 1].y_values) # Len(training_data)

C2_TieBreakLowestIndex ==
  LET tied == { c \in CandidateIndices :
                  CandidateSSD(ret.training_index, c) = ret.result.min_deviation }
  IN SelectedOneOk /\ Cardinality(tied) >= 2 =>
       /\ ret.result.index \in tied
       /\ \A c \in tied : ret.result.index <= c

IsPerPointDeviation(deviations, s, index) ==
  /\ Len(deviations) = Len(training_data)
  /\ \A i \in 1 .. Len(training_data) :
       deviations[i] = Abs(MeasuredSeries(s)[i] - Chosen(index).y_values[i])

IsMaximumOf(m, deviations) ==
  /\ \A i \in 1 .. Len(deviations) : deviations[i] <= m
  /\ \E i \in 1 .. Len(deviations) : deviations[i] = m

(* C8: after selection, deviations[i] = |measured.y[i] - chosen.y[i]| for every *)
(* grid index i, one entry per grid point, and the max_deviation of the record *)
(* produced by select_all_ideal_functions is the maximum of that sequence.     *)
C8_DeviationsAndMaximum ==
  /\ SelectedOneOk =>
       IsPerPointDeviation(ret.result.deviations, ret.training_index, ret.result.index)
  /\ SelectedAllOk =>
       \A s \in TrainingIndices :
         LET record == ret.result.results[KeyOf(s)]
         IN /\ IsPerPointDeviation(record.deviations, s, record.index)
            /\ IsMaximumOf(record.max_deviation, record.deviations)

(* A record whose largest deviation is not at the last grid point *)
C8_Witness ==
  /\ SelectedAllOk
  /\ \E s \in TrainingIndices :
       LET record == ret.result.results[KeyOf(s)]
       IN /\ Len(record.deviations) >= 2
          /\ record.max_deviation > record.deviations[Len(record.deviations)]

C10_FailFast ==
  (SelectedOne /\ SomeLengthMismatch) =>
    /\ ret.result.raised # ""
    /\ ret.result.scored = 0

EmptyInput == Len(ideal_functions) = 0 \/ Len(training_data) = 0

(* C11: select_ideal_function and select_all_ideal_functions called with zero *)
(* candidate curves or with zero measured points raise an error and return no *)
(* selection record.                                                          *)
C11_EmptyInputIsFatal ==
  /\ (SelectedOne /\ EmptyInput) =>
       /\ ret.result.raised = "MappingError"
       /\ ret.result.deviations = <<>>
       /\ ret.result.index \notin CandidateIndices
  /\ (SelectedAll /\ EmptyInput) =>
       /\ ret.result.raised = "MappingError"
       /\ ret.result.results = EmptyDict

(* Selection over a nonempty table failed for want of any candidate *)
C11_Witness ==
  /\ SelectedOne
  /\ Len(ideal_functions) = 0
  /\ Len(training_data) > 0
  /\ ret.result.raised = "MappingError"

(* The measured series each key of the results stands for *)
SeriesOfKey == [y1 |-> 0, y2 |-> 1, y3 |-> 2, y4 |-> 3]

(* C15: select_all_ideal_functions returns exactly four records, under the keys *)
(* 'y1','y2','y3','y4', and the record under 'y(k)' is the selection computed   *)
(* for measured series index k-1.                                               *)
C15_FourRecordsBySeries ==
  SelectedAllOk =>
    /\ DOMAIN ret.result.results = {"y1", "y2", "y3", "y4"}
    /\ \A key \in DOMAIN ret.result.results :
         LET record == ret.result.results[key]
             one == select_ideal_function(training_data, ideal_functions,
                                          SeriesOfKey[key])
         IN /\ one.raised = ""
            /\ record.index = one.index
            /\ record.min_deviation = one.min_deviation
            /\ record.deviations = one.deviations
            /\ record.min_deviation = ChosenSSD(SeriesOfKey[key], record.index)

(* Four records that differ by series, one of them for a candidate whose index *)
(* is not the series index                                                     *)
C15_Witness ==
  /\ SelectedAllOk
  /\ ret.result.results["y1"] # ret.result.results["y4"]
  /\ ret.result.results["y2"] # ret.result.results["y3"]
  /\ \E key \in DOMAIN ret.result.results :
       ret.result.results[key].index # SeriesOfKey[key]

(* C17: select_ideal_function and select_all_ideal_functions leave the training *)
(* data, every candidate curve and the selector object unchanged, whether they  *)
(* return normally or raise.                                                    *)
C17_NoSideEffects ==
  [][ret'.op \in {"select_ideal_function", "select_all_ideal_functions"}
       => /\ training_data' = training_data
          /\ ideal_functions' = ideal_functions
          /\ <<test_data, selected_ideal_functions, training_data_sets, db, stage>>'
               = <<test_data, selected_ideal_functions, training_data_sets, db, stage>>]_vars

(* A call that raised on nonempty inputs after it had scored a candidate *)
C17_Witness ==
  /\ SelectedOne
  /\ ret.training_index = 3
  /\ ret.result.raised = "MappingError"
  /\ ret.result.scored > 0
  /\ Len(training_data) > 0
  /\ Len(ideal_functions) > 1

(* C21: select_ideal_function called with a training_index outside 0..3 raises *)
(* ValueError (not MappingError) before any candidate is scored; with          *)
(* training_index in 0..3 this check never fails.                              *)
C21_IndexCheckedFirst ==
  ret.op = "select_ideal_function" =>
    /\ ret.training_index \notin TrainingIndices =>
         /\ ret.result.raised = "ValueError"
         /\ ret.result.scored = 0
    /\ ret.training_index \in TrainingIndices => ret.result.raised # "ValueError"

(* An out-of-range index was refused although the inputs would have raised *)
(* a length mismatch                                                       *)
C21_Witness ==
  /\ ret.op = "select_ideal_function"
  /\ ret.training_index = 4
  /\ ret.result.raised = "ValueError"
  /\ Len(training_data) > 0
  /\ SomeLengthMismatch

(* The candidates equal to measured series s at every grid point *)
ExactMatches(s) ==
  { c \in CandidateIndices : ideal_functions[c + 1].y_values = MeasuredSeries(s) }

AllZero(deviations) == \A i \in 1 .. Len(deviations) : deviations[i] = 0

----------------------------------------------------------------------------
(* Properties of the mapper *)

MappedPoint == ret.op = "map_test_point"

MappedAll == ret.op = "map_all_test_data"

MappedAllOk == MappedAll /\ ret.result.raised = ""

(* The x coordinates of the measured grid, shared by the candidate curves *)
Grid == [k \in 1 .. Len(training_data) |-> training_data[k].x]

(* The 0-based grid indices whose x is nearest to x (x itself when on the grid) *)
NearestGridIndices(x) ==
  { i \in 0 .. Len(Grid) - 1 :
      \A j \in 0 .. Len(Grid) - 1 : Abs(Grid[i + 1] - x) <= Abs(Grid[j + 1] - x) }

OutsideGrid(x) == Len(Grid) = 0 \/ x < Grid[1] \/ x > Grid[Len(Grid)]

(* The deviation of a test point from the chosen candidate of series key, read *)
(* at the grid index map_test_point looks up, and whether it is within         *)
(* max_deviation * sqrt(2) of that series.                                     *)
ChosenCurve(key) == PyIndex(ideal_functions, selected_ideal_functions[key].index)

LookedUpDeviation(point, key) ==
  Abs(point.y - ChosenCurve(key).y_values[find_closest_x(ChosenCurve(key), point.x)[1] + 1])

PassesThreshold(deviation, key) ==
  deviation * deviation <=
    2 * selected_ideal_functions[key].max_deviation
      * selected_ideal_functions[key].max_deviation

Accepts(point, key) == PassesThreshold(LookedUpDeviation(point, key), key)

(* C3: map_test_point assigns the observation to the given candidate (returns *)
(* its index) if and only if deviation = |observation.y - candidate.y[index   *)
(* looked up]| <= max_training_deviation * sqrt(2); the boundary is assigned, *)
(* and any larger deviation returns None.                                     *)
C3_ThresholdLaw ==
  MappedPoint =>
    /\ ret.result.raised = ""
    /\ Accepts(ret.before, ret.key) =>
         /\ ret.result.value = Some(selected_ideal_functions[ret.key].index)
         /\ test_data[ret.point].ideal_function_no =
              Some(selected_ideal_functions[ret.key].index + 1)
         /\ test_data[ret.point].delta_y = Some(LookedUpDeviation(ret.before, ret.key))
    /\ ~Accepts(ret.before, ret.key) => ret.result.value = None

(* A point whose deviation equals the threshold has been assigned *)
C3_Witness ==
  /\ MappedPoint
  /\ LookedUpDeviation(ret.before, ret.key) * LookedUpDeviation(ret.before, ret.key)
       = 2 * selected_ideal_functions[ret.key].max_deviation
           * selected_ideal_functions[ret.key].max_deviation
  /\ ret.result.value # None

(* C4: an observation that passes the threshold of the chosen candidates of two *)
(* or more measured series is assigned to the one whose deviation is smallest.  *)
C4_SmallestDeviationWins ==
  MappedAllOk =>
    \A p \in 1 .. Len(test_data) : \A key \in DOMAIN selected_ideal_functions :
      Accepts(ret.before[p], key) =>
        /\ test_data[p].delta_y # None
        /\ test_data[p].delta_y[1] <= LookedUpDeviation(ret.before[p], key)

(* C6: the grid index used to read the candidate's y value for an observation *)
(* is the index whose grid x equals, or is nearest to, the observation's x.    *)
C6_NearestGridLookup ==
  MappedPoint =>
    /\ find_closest_x(ChosenCurve(ret.key), ret.before.x) # None
    /\ find_closest_x(ChosenCurve(ret.key), ret.before.x)[1]
         \in NearestGridIndices(ret.before.x)
    /\ ret.result.value # None =>
         \E i \in NearestGridIndices(ret.before.x) :
           test_data[ret.point].delta_y =
             Some(Abs(ret.before.y - ChosenCurve(ret.key).y_values[i + 1]))

(* C7: an observation whose x lies outside the grid's coverage is not classified *)
(* against grid index 0: it is recorded unassigned, and the other observations   *)
(* are still classified.                                                         *)
C7_OutsideGridUnassigned ==
  /\ MappedPoint /\ OutsideGrid(ret.before.x) => ret.result.value = None
  /\ MappedAll =>
       /\ ret.result.raised = ""
       /\ Len(ret.result.value) = Len(ret.before)
       /\ \A p \in 1 .. Len(test_data) :
            OutsideGrid(ret.before[p].x) =>
              /\ test_data[p].ideal_function_no = None
              /\ test_data[p].delta_y = None

(* An observation's outcome fields as a pair *)
Outcome(point) == <<point.ideal_function_no, point.delta_y>>

Unassigned == <<None, None>>

NoneAccepts(point) == \A key \in DOMAIN selected_ideal_functions : ~Accepts(point, key)

(* C14: if none of the tested candidates accepts an observation, it is recorded *)
(* unassigned with both outcome fields unset: ideal_function_no = None and      *)
(* delta_y = None.                                                              *)
C14_RejectedIsUnassigned ==
  /\ (MappedPoint /\ ~Accepts(ret.before, ret.key)) =>
       /\ ret.result.value = None
       /\ Outcome(test_data[ret.point]) = Unassigned
  /\ MappedAllOk =>
       \A p \in 1 .. Len(test_data) :
         NoneAccepts(ret.before[p]) =>
           /\ Outcome(test_data[p]) = Unassigned
           /\ Outcome(ret.result.value[p]) = Unassigned

(* map_all_test_data left one point unassigned after all four candidates *)
(* rejected it, and assigned another                                     *)
C14_Witness ==
  /\ MappedAllOk
  /\ DOMAIN selected_ideal_functions = Keys
  /\ \E p, q \in 1 .. Len(test_data) :
       /\ NoneAccepts(ret.before[p])
       /\ Outcome(test_data[p]) = Unassigned
       /\ Outcome(test_data[q]) # Unassigned

(* C13: each observation is decided exactly once: after any sequence of       *)
(* map_test_point / map_all_test_data calls, an observation whose outcome has *)
(* been decided never has ideal_function_no or delta_y written again.         *)
C13_OutcomeWrittenOnce ==
  [][\A p \in 1 .. Len(test_data) :
       test_data[p].ideal_function_no # None
         => Outcome(test_data'[p]) = Outcome(test_data[p])]_vars

(* C25: after any sequence of map_test_point and map_all_test_data calls on  *)
(* observations created unassigned, ideal_function_no is None exactly when   *)
(* delta_y is None; and when set, ideal_function_no is the 0-based index of  *)
(* the assigning candidate plus 1, in 1..K, and delta_y is the deviation of  *)
(* the assigning call, which is within that call's threshold.                *)
C25_OutcomeFieldsConsistent ==
  \A p \in 1 .. Len(test_data) :
    LET point == test_data[p]
    IN /\ point.ideal_function_no = None <=> point.delta_y = None
       /\ point.ideal_function_no # None =>
            /\ point.ideal_function_no[1] \in 1 .. Len(ideal_functions)
            /\ \E key \in DOMAIN selected_ideal_functions :
                 /\ point.ideal_function_no[1] = selected_ideal_functions[key].index + 1
                 /\ point.delta_y = Some(LookedUpDeviation(point, key))
                 /\ Accepts(point, key)

(* C28: map_all_test_data returns a list with exactly one entry per input    *)
(* observation, in input order, whether the observation was assigned or not: *)
(* none is dropped or duplicated.                                            *)
C28_OneEntryPerObservation ==
  MappedAllOk =>
    /\ Len(ret.result.value) = Len(ret.before)
    /\ \A p \in 1 .. Len(ret.before) :
         /\ ret.result.value[p].x = ret.before[p].x
         /\ ret.result.value[p].y = ret.before[p].y
         /\ ret.result.value[p] = test_data[p]

(* Two distinct observations were returned in their order, the first of them *)
(* assigned and the second unassigned                                        *)
C28_Witness ==
  /\ MappedAllOk
  /\ Len(ret.before) >= 2
  /\ ret.before[1].x # ret.before[2].x
  /\ Outcome(ret.result.value[1]) # Unassigned
  /\ Outcome(ret.result.value[2]) = Unassigned
  /\ ret.result.value[2].x = ret.before[2].x

(* The observation is the measured point of series s at some grid point *)
IsMeasuredPoint(point, s) ==
  \E i \in 1 .. Len(training_data) :
    point.x = Grid[i] /\ point.y = MeasuredSeries(s)[i]

(* C29: for every measured series and every grid point i, the measured point *)
(* (grid.x[i], measured.y[i]) presented as an observation is accepted by the *)
(* series' chosen candidate with the series' max_deviation.                  *)
C29_MeasuredPointsAccepted ==
  MappedPoint /\ IsMeasuredPoint(ret.before, SeriesOfKey[ret.key]) =>
    /\ ret.result.raised = ""
    /\ ret.result.value = Some(selected_ideal_functions[ret.key].index)

(* C26: a map_test_point call that returns None changes neither delta_y nor  *)
(* ideal_function_no of the observation, and no map_test_point call changes  *)
(* an observation's x or y, the candidate curves or the selection records.   *)
C26_RejectionLeavesUntouched ==
  [][ret'.op = "map_test_point" =>
       /\ (ret'.result.raised = "" /\ ret'.result.value = None)
            => Outcome(test_data'[ret'.point]) = Outcome(ret'.before)
       /\ Len(test_data') = Len(test_data)
       /\ \A p \in 1 .. Len(test_data) :
            /\ test_data'[p].x = test_data[p].x
            /\ test_data'[p].y = test_data[p].y
       /\ ideal_functions' = ideal_functions
       /\ selected_ideal_functions' = selected_ideal_functions]_vars

(* A point assigned by an earlier call was rejected by a later call with *)
(* another record and kept its outcome                                   *)
C26_Witness ==
  /\ ret.op = "map_test_point"
  /\ ret.result.raised = ""
  /\ ret.result.value = None
  /\ Outcome(ret.before) # Unassigned
  /\ Outcome(test_data[ret.point]) = Outcome(ret.before)

----------------------------------------------------------------------------
(* Properties of the application workflow *)

(* C5: in the workflow, every observation is tested against the chosen         *)
(* candidate of each of the four measured series: an observation that passes   *)
(* the threshold of at least one of the four chosen candidates ends the        *)
(* mapping stage assigned.                                                     *)
C5_TestedAgainstEverySeries ==
  stage = "mapped" =>
    \A p \in 1 .. Len(test_data) :
      (\E key \in Keys : Accepts(test_data[p], key))
        => test_data[p].ideal_function_no # None

(* The stages of run, in the order of their calls *)
StageOps == <<"load_data", "initialize_database", "select_ideal_functions",
              "map_test_data", "visualize_results">>

HandledErrors == {"DataLoadError", "InvalidDataError", "DatabaseError",
                  "MappingError", "VisualizationError"}

(* The last call was a stage that raised, or the last stage *)
RunEnds ==
  /\ \E k \in 1 .. 5 : ret.op = StageOps[k]
  /\ ret.raised # "" \/ ret.op = "visualize_results"

(* C30: run executes its stages in the order load, initialize database,      *)
(* select, map, visualize; a stage starts only if every earlier stage has    *)
(* completed without error; and Database.close is invoked at the end of      *)
(* every execution path: success, a handled stage error ending in exit       *)
(* status 1, or an unhandled exception.                                      *)
C30_StagesInOrderThenClose ==
  [][/\ \A k \in 1 .. 5 :
          ret'.op = StageOps[k] =>
            IF k = 1 THEN ret = NoCall
            ELSE ret.op = StageOps[k - 1] /\ ret.raised = ""
     /\ RunEnds =>
          /\ ret'.op = "run"
          /\ db'.disposed = db.engine
          /\ db'.engine = db.engine
          /\ ret.raised \in HandledErrors => ret'.exit_status = 1
          /\ ret.raised = "" => ret'.exit_status = 0
     /\ ret'.op = "run" => RunEnds]_vars

(* A run that selected, failed in the mapping stage with a handled error and *)
(* ended with exit status 1 and the engine disposed                          *)
C30_Witness ==
  /\ stage = "exited"
  /\ ret.raised = "MappingError"
  /\ ret.exit_status = 1
  /\ selected_ideal_functions # EmptyDict
  /\ db.engine /\ db.disposed

(* The series whose selection fails on the loaded training set and candidates *)
FailingSeries(sets, ifs) ==
  IF "train1" \notin DOMAIN sets THEN {}
  ELSE { s \in TrainingIndices :
           select_ideal_function(sets["train1"], ifs, s).raised # "" }

(* C12: if selection fails for any one of the four measured series,          *)
(* select_all_ideal_functions raises and returns no records at all, and the  *)
(* selection stage leaves Application.selected_ideal_functions unchanged.    *)
C12_NoPartialSelection ==
  [][(stage = "initialized" /\ FailingSeries(training_data_sets, ideal_functions) # {})
       => /\ select_all_ideal_functions(training_data_sets["train1"],
                                         ideal_functions)
               = [raised |-> "MappingError", results |-> EmptyDict]
          /\ ret'.raised = "MappingError"
          /\ stage' = "failed"
          /\ selected_ideal_functions' = selected_ideal_functions]_vars

(* The selection stage failed on a later series after the first had a record *)
C12_Witness ==
  /\ ret.op = "select_ideal_functions"
  /\ ret.raised = "MappingError"
  /\ FailingSeries(training_data_sets, ideal_functions) # {}
  /\ 0 \notin FailingSeries(training_data_sets, ideal_functions)
  /\ selected_ideal_functions = EmptyDict

----------------------------------------------------------------------------
(* Properties of the data classes *)

(* The number of values the test of IdealFunction expects *)
FiftyValues == 50

ConstructedIdealFunction == ret.op = "IdealFunction"

ConstructedTrainingData == ret.op = "TrainingData"

(* C20: every TrainingData row holds exactly four y values (construction with *)
(* any other count raises ValueError), so the four measured series extracted  *)
(* from any list of rows have equal length, one value per row in row order.   *)
C20_FourValuesPerRow ==
  /\ ConstructedTrainingData =>
       (ret.raised = "ValueError" <=> Len(ret.y_values) # 4)
  /\ \A k \in 1 .. Len(training_data) : Len(training_data[k].y_values) = 4
  /\ \A s \in TrainingIndices :
       /\ Len(TrainingYValues(training_data, s)) = Len(training_data)
       /\ \A k \in 1 .. Len(training_data) :
            TrainingYValues(training_data, s)[k] = training_data[k].y_values[s + 1]

(* A row of three values was refused after rows of four had been listed *)
C20_Witness ==
  /\ ConstructedTrainingData
  /\ Len(ret.y_values) = 3
  /\ ret.raised = "ValueError"
  /\ Len(training_data) >= 2
  /\ training_data[1].x > training_data[2].x

(* C23: Application.load_data raises DataLoadError whenever any of the        *)
(* training, ideal-function or test files fails to load, including a file    *)
(* that does not exist; it never returns normally having skipped a file.     *)
C23_LoadFailureIsError ==
  ret.op = "load_data" =>
    ((\E f \in 1 .. 3 : ret.files[f] # "ok") =>
       /\ ret.raised = "DataLoadError"
       /\ stage = "failed")

(* C27: whenever select_ideal_function returns normally, the returned index *)
(* lies in 0..K-1, K the number of candidates; the initial -1 is never      *)
(* returned, also when no score is strictly below the initial infinity.     *)
C27_IndexInRange ==
  SelectedOneOk => ret.result.index \in CandidateIndices

----------------------------------------------------------------------------
(* Properties of the loader *)

(* The last call loaded a readable file holding the columns x, y1..y50 *)
LoadedIdealCsv ==
  /\ ret.op = "load_ideal_functions"
  /\ ret.file.status = "ok"
  /\ ret.file.columns >= 50

(* The returned list is the transposed table: 50 objects in column order, *)
(* object k holding row i's value of column y(k+1) at position i          *)
IsTransposed(value, rows) ==
  /\ Len(value) = 50
  /\ \A k \in 0 .. 49 :
       /\ Len(value[k + 1].y_values) = Len(rows)
       /\ \A i \in 1 .. Len(rows) : value[k + 1].y_values[i] = rows[i].y[k + 1]

----------------------------------------------------------------------------
(* Properties of the database *)

(* init_db has completed successfully: Session is assigned by the last *)
(* statement of init_db and by nothing else                            *)
InitDbHasSucceeded == db.Session

(* C22: in every state where init_db has not completed successfully,         *)
(* get_session raises DatabaseError; once init_db has succeeded, get_session *)
(* returns a session.                                                        *)
C22_SessionLifecycle ==
  ret.op = "get_session" =>
    /\ ~InitDbHasSucceeded => ret.result.raised = "DatabaseError"
    /\ InitDbHasSucceeded => ret.result.raised = ""

====
